---- MODULE Spec2Model ----
(***************************************************************************)
(* Model of the Standard MIDI File decoder of midivis: parseMidiFile (the  *)
(* chunk/header reader and the event decode loop), readVariableLengthValue2 *)
(* and MidiTrack.ToTrack (the note interval reconstruction), followed by   *)
(* the append that main makes to its track list, main's loop over the      *)
(* files of the directory and the entry of startRender.                    *)
(*                                                                         *)
(* The file is a sequence of bytes and an offset.  Go's int is 64 bits     *)
(* wide; it is kept here as three limbs <<hi, mid, lo>> of 22, 21 and 21   *)
(* bits in two's complement, so that the shifts of the variable-length     *)
(* decoder and the additions of the tick cursor wrap as they do in Go.     *)
(***************************************************************************)
EXTENDS Integers, Sequences, FiniteSets, TLC

VARIABLES
    files,       \* the .mid files of the directory, in os.ReadDir order
    fileNo,      \* position of main's loop in files
    data,        \* the bytes of the file opened by parseMidiFile
    pos,         \* read offset of the *os.File (bytes consumed)
    pc,          \* "header", "events", "parsed", "totrack", "returned",
                 \* "render" or "panic"
    done,        \* the flag of the decode loop of parseMidiFile
    midiTrack,   \* the *MidiTrack being built: [notes, ppqn]
    idx,         \* number of midiTrack.notes entries ToTrack has ranged over
    deltaTotal,  \* ToTrack's running tick cursor (Go int)
    noteOnMap,   \* ToTrack's pending table: note number -> Note
    track,       \* the *Track being built: [name, ppqn, notes]
    tracks,      \* main's list of finished tracks
    game,        \* what startRender computes from tracks for the Game
    conv,        \* the arguments and results of the tick/second conversions
    streamTicks, \* history: sum of the delta-times of all decoded events
    evTicks,     \* history: streamTicks at each entry of midiTrack.notes
    closedBy     \* history: index of the note-off that closed each track note

vars == <<files, fileNo, data, pos, pc, done, midiTrack, idx, deltaTotal,
          noteOnMap, track, tracks, game, conv, streamTicks, evTicks,
          closedBy>>

----------------------------------------------------------------------------
(* Bounds of the checked inputs.                                           *)

\* longest track body, in fragments, built from the note-level fragments
MaxEvents == 5
\* longest track body, in fragments, built from the byte-level fragments
MaxRaw == 3
\* largest number of .mid files in the directory main ranges over
MaxFiles == 2

----------------------------------------------------------------------------
(* Go int (64 bits) as limbs.                                               *)

\* 2^21, the size of the two low limbs
Limb == 2097152
\* 2^22, the size of the high limb (bit 21 of it is the sign bit)
HiLimb == 4194304
\* 2^14: the low 14 bits of a limb stay in the limb under a shift by 7
Keep14 == 16384
\* 2^15: the low 15 bits of the high limb stay under a shift by 7
Keep15 == 32768

\* int(n) for a small non-negative n
I64(n) == <<0, n \div Limb, n % Limb>>

I64Zero == <<0, 0, 0>>

\* the Go int -1
I64MinusOne == <<HiLimb - 1, Limb - 1, Limb - 1>>

IsNeg(x) == x[1] >= Limb

\* x + y in 64 bits, wrapping
I64Add(x, y) ==
    LET lo  == x[3] + y[3]
        mid == x[2] + y[2] + lo \div Limb
        hi  == x[1] + y[1] + mid \div Limb
    IN  <<hi % HiLimb, mid % Limb, lo % Limb>>

\* x <= y as signed 64 bit integers
I64Leq(x, y) ==
    IF IsNeg(x) # IsNeg(y) THEN IsNeg(x)
    ELSE \/ x[1] < y[1]
         \/ x[1] = y[1] /\ x[2] < y[2]
         \/ x[1] = y[1] /\ x[2] = y[2] /\ x[3] <= y[3]

I64Less(x, y) == I64Leq(x, y) /\ x # y

\* variant of Shl7Or: the accumulator is shifted by 8 bits
Shl7Or_Shift8(result, b) ==
    LET lo  == (result[3] % 8192) * 256 + (b % 128)
        mid == (result[2] % 8192) * 256 + result[3] \div 8192
        hi  == (result[1] % Keep14) * 256 + result[2] \div 8192
    IN  <<hi, mid, lo>>

\* variant of Shl7Or: the continuation bit of the byte is not masked off
Shl7Or_NoMask(result, b) ==
    LET lo  == (result[3] % Keep14) * 128 + b
        mid == (result[2] % Keep14) * 128 + result[3] \div Keep14
        hi  == (result[1] % Keep15) * 128 + result[2] \div Keep14
    IN  <<hi, mid, lo>>

\* (result << 7) | int(b & 0x7F) in 64 bits: the top 7 bits fall off
Shl7Or(result, b) ==
    LET lo  == (result[3] % Keep14) * 128 + (b % 128)
        mid == (result[2] % Keep14) * 128 + result[3] \div Keep14
        hi  == (result[1] % Keep15) * 128 + result[2] \div Keep14
    IN  <<hi, mid, lo>>

----------------------------------------------------------------------------
(* Reading the file.                                                        *)

Min(a, b) == IF a <= b THEN a ELSE b

\* (*os.File).Read into a buffer of n >= 0 bytes at offset p: a zero length
\* read returns no error, a read at end of file returns io.EOF, and any
\* other read returns the bytes that are left, up to n, without an error.
ReadErr(d, p, n) == n > 0 /\ p >= Len(d)

ReadEnd(d, p, n) == Min(p + n, Len(d))

\* byte i (from 1) of a buffer of zeros filled by a read at offset p
BufAt(d, p, i) == IF p + i <= Len(d) THEN d[p + i] ELSE 0

\* variant of Uint16At: the two bytes are taken in little endian order
Uint16At_LittleEndian(d, p) == BufAt(d, p, 2) * 256 + BufAt(d, p, 1)

\* binary.BigEndian.Uint16 of the 2 byte buffer filled at offset p
Uint16At(d, p) == BufAt(d, p, 1) * 256 + BufAt(d, p, 2)

\* readVariableLengthValue2 from offset p with the accumulator result:
\* err is the panic of check(err) on a read at end of file
RECURSIVE readVLQ(_, _, _)
\* variant of readVLQ: the read error is dropped, so the zero left in the
\* buffer at end of file is taken as the last byte of the quantity
readVLQ_EofAsZero(d, p, result) ==
    IF p >= Len(d)
        THEN [err |-> FALSE, val |-> Shl7Or(result, 0), pos |-> p]
    ELSE LET b == d[p + 1]
             r == Shl7Or(result, b)
         IN  IF b < 128 THEN [err |-> FALSE, val |-> r, pos |-> p + 1]
             ELSE readVLQ(d, p + 1, r)

readVLQ(d, p, result) ==
    IF p >= Len(d) THEN [err |-> TRUE, val |-> result, pos |-> p]
    ELSE LET b == d[p + 1]
             r == Shl7Or(result, b)
         IN  IF b < 128 THEN [err |-> FALSE, val |-> r, pos |-> p + 1]
             ELSE readVLQ(d, p + 1, r)

readVariableLengthValue2(d, p) == readVLQ(d, p, I64Zero)

----------------------------------------------------------------------------
(* parseMidiFile: the header.                                               *)

\* NewMidiTrack()
NewMidiTrack == [notes |-> <<>>, ppqn |-> 0]

\* path.Base on a name without trailing slash: what follows the last '/'
Base(fileName) ==
    LET slashes == {i \in 1..Len(fileName) : fileName[i] = 47}
    IN  IF slashes = {} THEN fileName
        ELSE SubSeq(fileName,
                    (CHOOSE i \in slashes : \A j \in slashes : j <= i) + 1,
                    Len(fileName))

\* variant of NewTrack: the name is left empty
NewTrack_NoName(fileName, ppqn) == [name |-> <<>>, ppqn |-> ppqn, notes |-> <<>>]

\* NewTrack(fileName, ppqn); a name is its sequence of bytes
NewTrack(fileName, ppqn) ==
    [name |-> Base(fileName), ppqn |-> ppqn, notes |-> <<>>]

\* variant of parseHeader: a header chunk length other than 6 is refused
parseHeader_LengthSix(d) ==
    LET pLength   == ReadEnd(d, 0, 4)
        pFormat   == ReadEnd(d, pLength, 4)
        pNTracks  == ReadEnd(d, pFormat, 2)
        pDivision == ReadEnd(d, pNTracks, 2)
        pTrackHdr == ReadEnd(d, pDivision, 2)
        pTrackLen == ReadEnd(d, pTrackHdr, 4)
        pEvents   == ReadEnd(d, pTrackLen, 4)
    IN  IF ReadErr(d, 0, 4)
            THEN [err |-> TRUE, pos |-> 0, ppqn |-> 0]
        ELSE IF <<BufAt(d, pLength, 1), BufAt(d, pLength, 2),
                  BufAt(d, pLength, 3), BufAt(d, pLength, 4)>> # <<0, 0, 0, 6>>
            THEN [err |-> TRUE, pos |-> pFormat, ppqn |-> 0]
        ELSE IF Uint16At(d, pFormat) # 0
            THEN [err |-> TRUE, pos |-> pNTracks, ppqn |-> 0]
        ELSE IF BufAt(d, pDivision, 1) >= 128
            THEN [err |-> TRUE, pos |-> pTrackHdr, ppqn |-> 0]
        ELSE [err |-> FALSE, pos |-> pEvents, ppqn |-> Uint16At(d, pDivision)]

\* variant of parseHeader: the formats 0, 1 and 2 are all accepted
parseHeader_AnyFormat(d) ==
    LET pLength   == ReadEnd(d, 0, 4)
        pFormat   == ReadEnd(d, pLength, 4)
        pNTracks  == ReadEnd(d, pFormat, 2)
        pDivision == ReadEnd(d, pNTracks, 2)
        pTrackHdr == ReadEnd(d, pDivision, 2)
        pTrackLen == ReadEnd(d, pTrackHdr, 4)
        pEvents   == ReadEnd(d, pTrackLen, 4)
    IN  IF ReadErr(d, 0, 4)
            THEN [err |-> TRUE, pos |-> 0, ppqn |-> 0]
        ELSE IF Uint16At(d, pFormat) > 2
            THEN [err |-> TRUE, pos |-> pNTracks, ppqn |-> 0]
        ELSE IF BufAt(d, pDivision, 1) >= 128
            THEN [err |-> TRUE, pos |-> pTrackHdr, ppqn |-> 0]
        ELSE [err |-> FALSE, pos |-> pEvents, ppqn |-> Uint16At(d, pDivision)]

\* variant of parseHeader: the division type is tested on the low byte
parseHeader_DivisionLowByte(d) ==
    LET pLength   == ReadEnd(d, 0, 4)
        pFormat   == ReadEnd(d, pLength, 4)
        pNTracks  == ReadEnd(d, pFormat, 2)
        pDivision == ReadEnd(d, pNTracks, 2)
        pTrackHdr == ReadEnd(d, pDivision, 2)
        pTrackLen == ReadEnd(d, pTrackHdr, 4)
        pEvents   == ReadEnd(d, pTrackLen, 4)
    IN  IF ReadErr(d, 0, 4)
            THEN [err |-> TRUE, pos |-> 0, ppqn |-> 0]
        ELSE IF Uint16At(d, pFormat) # 0
            THEN [err |-> TRUE, pos |-> pNTracks, ppqn |-> 0]
        ELSE IF BufAt(d, pDivision, 2) >= 128
            THEN [err |-> TRUE, pos |-> pTrackHdr, ppqn |-> 0]
        ELSE [err |-> FALSE, pos |-> pEvents, ppqn |-> Uint16At(d, pDivision)]

\* The header reads of parseMidiFile.  Only the first read is followed by
\* check(err); the later reads drop their error and leave zeros in the
\* buffer where the file has no bytes.  Neither chunk tag is compared.
parseHeader(d) ==
    LET pLength   == ReadEnd(d, 0, 4)
        pFormat   == ReadEnd(d, pLength, 4)
        pNTracks  == ReadEnd(d, pFormat, 2)
        pDivision == ReadEnd(d, pNTracks, 2)
        pTrackHdr == ReadEnd(d, pDivision, 2)
        pTrackLen == ReadEnd(d, pTrackHdr, 4)
        pEvents   == ReadEnd(d, pTrackLen, 4)
    IN  IF ReadErr(d, 0, 4)
            THEN [err |-> TRUE, pos |-> 0, ppqn |-> 0]
        ELSE IF Uint16At(d, pFormat) # 0
            THEN [err |-> TRUE, pos |-> pNTracks, ppqn |-> 0]
        ELSE IF BufAt(d, pDivision, 1) >= 128
            THEN [err |-> TRUE, pos |-> pTrackHdr, ppqn |-> 0]
        ELSE [err |-> FALSE, pos |-> pEvents, ppqn |-> Uint16At(d, pDivision)]

----------------------------------------------------------------------------
(* parseMidiFile: one pass of the event loop.                               *)

NoteOff == 8
NoteOn  == 9

\* variant of Panicked: a failed read ends the loop as an end of track does
Panicked_EndsLoop(p) ==
    [err |-> FALSE, pos |-> p, done |-> TRUE, notes |-> <<>>]

\* the outcome of one pass: a panic, or the new offset, the done flag and
\* the MidiNote appended to midiTrack.notes, if any
Panicked(p) == [err |-> TRUE, pos |-> p, done |-> FALSE, notes |-> <<>>]

Decoded(p, dn, ns) == [err |-> FALSE, pos |-> p, done |-> dn, notes |-> ns]

\* the largest length make([]byte, n) accepts: 2^48 on 64 bit platforms
MaxAlloc == <<64, 0, 0>>

\* make([]byte, n) panics for a negative n and for an n above MaxAlloc
makePanics(n) == IsNeg(n) \/ I64Less(MaxAlloc, n)

\* variant of readPayload: the buffer is made but never read into
readPayload_NoRead(d, p, n) ==
    IF makePanics(n) THEN Panicked(p)
    ELSE Decoded(p, FALSE, <<>>)

\* dat.Read into make([]byte, n) followed by check(err)
readPayload(d, p, n) ==
    IF makePanics(n) THEN Panicked(p)
    ELSE IF n # I64Zero /\ p >= Len(d) THEN Panicked(p)
    ELSE IF I64Leq(I64(Len(d) - p), n) THEN Decoded(Len(d), FALSE, <<>>)
    ELSE Decoded(p + n[3], FALSE, <<>>)

\* variant of metaEvent: the end of track does not end the loop
metaEvent_EotContinues(d, p) ==
    IF ReadErr(d, p, 1) THEN Panicked(p)
    ELSE LET metaEventType == d[p + 1]
             l == readVariableLengthValue2(d, p + 1)
             metaEventLength == l.val
         IN  IF l.err THEN Panicked(l.pos)
             ELSE CASE metaEventType = 3 ->
                         readPayload(d, l.pos, metaEventLength)
                    [] metaEventType = 47 ->
                         IF metaEventLength # I64Zero THEN Panicked(l.pos)
                         ELSE Decoded(l.pos, FALSE, <<>>)
                    [] metaEventType = 88 ->
                         IF metaEventLength # I64(4) THEN Panicked(l.pos)
                         ELSE IF l.pos + 4 > Len(d) THEN Panicked(Len(d))
                         ELSE Decoded(l.pos + 4, FALSE, <<>>)
                    [] metaEventType = 81 ->
                         IF metaEventLength # I64(3) THEN Panicked(l.pos)
                         ELSE IF ReadErr(d, l.pos, 3) THEN Panicked(l.pos)
                         ELSE Decoded(ReadEnd(d, l.pos, 3), FALSE, <<>>)
                    [] OTHER ->
                         readPayload(d, l.pos, metaEventLength)

\* variant of metaEvent: the end of track length is not compared with 0
metaEvent_EotAnyLength(d, p) ==
    IF ReadErr(d, p, 1) THEN Panicked(p)
    ELSE LET metaEventType == d[p + 1]
             l == readVariableLengthValue2(d, p + 1)
             metaEventLength == l.val
         IN  IF l.err THEN Panicked(l.pos)
             ELSE CASE metaEventType = 3 ->
                         readPayload(d, l.pos, metaEventLength)
                    [] metaEventType = 47 ->
                         Decoded(l.pos, TRUE, <<>>)
                    [] metaEventType = 88 ->
                         IF metaEventLength # I64(4) THEN Panicked(l.pos)
                         ELSE IF l.pos + 4 > Len(d) THEN Panicked(Len(d))
                         ELSE Decoded(l.pos + 4, FALSE, <<>>)
                    [] metaEventType = 81 ->
                         IF metaEventLength # I64(3) THEN Panicked(l.pos)
                         ELSE IF ReadErr(d, l.pos, 3) THEN Panicked(l.pos)
                         ELSE Decoded(ReadEnd(d, l.pos, 3), FALSE, <<>>)
                    [] OTHER ->
                         readPayload(d, l.pos, metaEventLength)

\* the meta event branch; p is the offset after the 0xFF status byte
metaEvent(d, p) ==
    IF ReadErr(d, p, 1) THEN Panicked(p)
    ELSE LET metaEventType == d[p + 1]
             l == readVariableLengthValue2(d, p + 1)
             metaEventLength == l.val
         IN  IF l.err THEN Panicked(l.pos)
             ELSE CASE metaEventType = 3 ->
                         readPayload(d, l.pos, metaEventLength)
                    [] metaEventType = 47 ->
                         IF metaEventLength # I64Zero THEN Panicked(l.pos)
                         ELSE Decoded(l.pos, TRUE, <<>>)
                    [] metaEventType = 88 ->
                         IF metaEventLength # I64(4) THEN Panicked(l.pos)
                         ELSE IF l.pos + 4 > Len(d) THEN Panicked(Len(d))
                         ELSE Decoded(l.pos + 4, FALSE, <<>>)
                    [] metaEventType = 81 ->
                         IF metaEventLength # I64(3) THEN Panicked(l.pos)
                         ELSE IF ReadErr(d, l.pos, 3) THEN Panicked(l.pos)
                         ELSE Decoded(ReadEnd(d, l.pos, 3), FALSE, <<>>)
                    [] OTHER ->
                         readPayload(d, l.pos, metaEventLength)

\* the sysex branch; p is the offset after the 0xF0 or 0xF7 status byte
sysexEvent(d, p) ==
    LET l == readVariableLengthValue2(d, p)
    IN  IF l.err THEN Panicked(l.pos)
        ELSE readPayload(d, l.pos, l.val)

\* the number of data bytes the MIDI event branch reads for a status byte
\* of the given high nibble: only note off and note on have a case
dataBytes(midiEventType) ==
    IF midiEventType = NoteOff \/ midiEventType = NoteOn THEN 2 ELSE 0

\* the MidiNote appended for a note off or note on
MidiNote(deltaTime, eventType, note, velocity) ==
    [deltaTime |-> deltaTime, eventType |-> eventType, channel |-> 0,
     note |-> note, velocity |-> velocity]

\* variant of midiEvent: the reads of the data bytes are not checked
midiEvent_ZeroFill(d, p, eventFirstByte, deltaTime) ==
    LET midiEventType == eventFirstByte \div 16
        n == dataBytes(midiEventType)
    IN  IF n = 0 THEN Decoded(p, FALSE, <<>>)
        ELSE Decoded(ReadEnd(d, p, n), FALSE,
                     <<MidiNote(deltaTime, midiEventType,
                                BufAt(d, p, 1), BufAt(d, p, 2))>>)

\* the MIDI event branch; p is the offset after the status byte
midiEvent(d, p, eventFirstByte, deltaTime) ==
    LET midiEventType == eventFirstByte \div 16
        n == dataBytes(midiEventType)
    IN  IF n = 0 THEN Decoded(p, FALSE, <<>>)
        ELSE IF p + n > Len(d) THEN Panicked(Len(d))
        ELSE Decoded(p + n, FALSE,
                     <<MidiNote(deltaTime, midiEventType, d[p + 1], d[p + 2])>>)

\* one pass of the loop body from offset p
decodeEvent(d, p) ==
    LET v == readVariableLengthValue2(d, p)
    IN  IF v.err THEN Panicked(v.pos)
        ELSE IF ReadErr(d, v.pos, 1) THEN Panicked(v.pos)
        ELSE LET eventFirstByte == d[v.pos + 1]
             IN  IF eventFirstByte = 255 THEN metaEvent(d, v.pos + 1)
                 ELSE IF eventFirstByte = 240 \/ eventFirstByte = 247
                     THEN sysexEvent(d, v.pos + 1)
                 ELSE midiEvent(d, v.pos + 1, eventFirstByte, v.val)

----------------------------------------------------------------------------
(* MidiTrack.ToTrack: one pass of the loop over midiTrack.notes.            *)

\* the pending Note stored for a note on at the cursor
OpenNote(cursor, midiNote) ==
    [on |-> cursor, off |-> I64MinusOne, num |-> midiNote.note,
     vel |-> midiNote.velocity]

\* variant of CloseNote: the off tick is never assigned
CloseNote_Unset(foundNote, cursor) == foundNote

\* foundNote.off = deltaTotal
CloseNote(foundNote, cursor) == [foundNote EXCEPT !.off = cursor]

\* variant of MapPut: a pending entry is kept when one is there already
MapPut_KeepFirst(m, note, n) ==
    IF note \in DOMAIN m THEN m ELSE (note :> n) @@ m

\* noteOnMap[note] = n
MapPut(m, note, n) == (note :> n) @@ m

\* variant of MapDelete: the entry stays in the table
MapDelete_Keep(m, note) == m

\* delete(noteOnMap, note)
MapDelete(m, note) == [k \in DOMAIN m \ {note} |-> m[k]]

\* variant of AppendNote: the note goes to the front of the list
AppendNote_Front(notes, n) == <<n>> \o notes

\* track.notes = append(track.notes, foundNote)
AppendNote(notes, n) == Append(notes, n)

\* variant of Advance: the delta-time is assigned, not added
Advance_Assign(cursor, midiNote) == midiNote.deltaTime

\* the cursor after the delta-time of midiNote
Advance(cursor, midiNote) == I64Add(cursor, midiNote.deltaTime)

\* variant of toTrackNote: the result of the map lookup is used without
\* its ok flag, so an absent entry is closed as the zero Note
toTrackNote_NoOkCheck(m, notes, cursor, midiNote) ==
    IF midiNote.eventType = NoteOn
        THEN [map |-> MapPut(m, midiNote.note, OpenNote(cursor, midiNote)),
              notes |-> notes]
    ELSE LET foundNote == IF midiNote.note \in DOMAIN m THEN m[midiNote.note]
                          ELSE [on |-> I64Zero, off |-> I64Zero, num |-> 0,
                                vel |-> 0]
         IN  [map |-> MapDelete(m, midiNote.note),
              notes |-> AppendNote(notes, CloseNote(foundNote, cursor))]

\* variant of toTrackNote: a note on with velocity 0 is taken as a note off
toTrackNote_VelocityZeroOff(m, notes, cursor, midiNote) ==
    IF midiNote.eventType = NoteOn /\ midiNote.velocity # 0
        THEN [map |-> MapPut(m, midiNote.note, OpenNote(cursor, midiNote)),
              notes |-> notes]
    ELSE IF midiNote.note \in DOMAIN m
        THEN [map |-> MapDelete(m, midiNote.note),
              notes |-> AppendNote(notes, CloseNote(m[midiNote.note], cursor))]
    ELSE [map |-> m, notes |-> notes]

\* the pending table and the note list after midiNote at the cursor
toTrackNote(m, notes, cursor, midiNote) ==
    IF midiNote.eventType = NoteOn
        THEN [map |-> MapPut(m, midiNote.note, OpenNote(cursor, midiNote)),
              notes |-> notes]
    ELSE IF midiNote.eventType = NoteOff /\ midiNote.note \in DOMAIN m
        THEN [map |-> MapDelete(m, midiNote.note),
              notes |-> AppendNote(notes, CloseNote(m[midiNote.note], cursor))]
    ELSE [map |-> m, notes |-> notes]

----------------------------------------------------------------------------
(* The checked files: a header chunk and a track chunk header, followed by  *)
(* a track body that is a concatenation of fragments.                       *)

\* "MThd" 6, format 0, one track, division 480; "MTrk" and its length
HeaderBytes ==
    <<77, 84, 104, 100, 0, 0, 0, 6, 0, 0, 0, 1, 1, 224,
      77, 84, 114, 107, 0, 0, 0, 0>>

\* delta 0, note on 60 velocity 100
FOn60 == <<0, 144, 60, 100>>
\* delta 1, note on 60 velocity 70
FOn60b == <<1, 144, 60, 70>>
\* delta 1, note on 62 velocity 90
FOn62 == <<1, 144, 62, 90>>
\* delta 480, note off 60 velocity 0
FOff60 == <<131, 96, 128, 60, 0>>
\* delta 1, note off 62 velocity 64
FOff62 == <<1, 128, 62, 64>>
\* delta 0, end of track
FEot == <<0, 255, 47, 0>>
\* delta 2, set tempo 500000
FTempo == <<2, 255, 81, 3, 7, 161, 32>>
\* a ten byte delta of 70 one bits (-1 in 64 bits), note off 60
FOffWrap == <<255, 255, 255, 255, 255, 255, 255, 255, 255, 127, 128, 60, 0>>
\* delta 0, program change to 5 on channel 0
FProgram == <<0, 192, 5>>
\* delta 0, control change 7 = 100 on channel 0
FControl == <<0, 176, 7, 100>>
\* delta 0, sysex with two bytes
FSysex == <<0, 240, 2, 1, 2>>
\* delta 0, text meta event "A"
FText == <<0, 255, 1, 1, 65>>
\* delta 0, time signature 4/4
FTimeSig == <<0, 255, 88, 4, 4, 2, 24, 8>>
\* delta 0 and a note on status byte, the data bytes missing
FCutOn == <<0, 144>>
\* a delta-time whose byte has the continuation bit set
FCutVlq == <<129>>

NoteFrags == {FOn60, FOn60b, FOn62, FOff60, FOff62, FEot, FTempo}

RawFrags == {FOn60, FOff60, FEot, FOffWrap, FProgram, FControl, FSysex,
             FText, FTimeSig, FCutOn, FCutVlq, FTempo}

\* the concatenations of at most n fragments of F
RECURSIVE Bodies(_, _)
Bodies(F, n) ==
    IF n = 0 THEN {<<>>}
    ELSE LET B == Bodies(F, n - 1)
         IN  B \cup {b \o f : b \in B, f \in F}

\* delta 0, note off 60 velocity 64
FOff60Now == <<0, 128, 60, 64>>
\* delta 0, end of track with length 1 and one payload byte
FEotLen1 == <<0, 255, 47, 1, 0>>
\* delta 0, set tempo with length 2
FTempoLen2 == <<0, 255, 81, 2, 7, 161>>
\* delta 0, time signature with length 3
FTimeSigLen3 == <<0, 255, 88, 3, 4, 2, 24>>
\* delta 0, sysex declaring three bytes and carrying one
FCutSysex == <<0, 240, 3, 1>>
\* delta 0, text meta event declaring two bytes and carrying one
FCutText == <<0, 255, 1, 2, 65>>
\* delta 0, set tempo carrying one of its three bytes
FCutTempo == <<0, 255, 81, 3, 7>>

CutFrags == {FOn60, FOff60Now, FEot, FEotLen1, FTempoLen2, FTimeSigLen3,
             FCutSysex, FCutText, FCutTempo, FCutOn}

\* the chunk tags
MThd == <<77, 84, 104, 100>>
MTrk == <<77, 84, 114, 107>>

\* a header chunk of length 6 with one track, and a track chunk header
MkHeader(tag, format, division, trackTag) ==
    tag \o <<0, 0, 0, 6>> \o format \o <<0, 1>> \o division
        \o trackTag \o <<0, 0, 0, 0>>

\* headers with a right and a wrong tag, formats 0, 1 and 256, divisions
\* 480, 96, 0, 32767 and two with bit 15 set
Headers ==
    {MkHeader(tag, format, division, trackTag) :
        tag \in {MThd, <<88, 84, 104, 100>>},
        format \in {<<0, 0>>, <<0, 1>>, <<1, 0>>},
        division \in {<<1, 224>>, <<0, 96>>, <<0, 0>>, <<127, 255>>,
                      <<232, 40>>, <<128, 0>>},
        trackTag \in {MTrk, <<77, 84, 114, 88>>}}

\* the files that vary the header, and the files cut inside the header
HeaderFiles ==
    {h \o b : h \in Headers, b \in {<<>>, FEot, FOn60 \o FOff60 \o FEot}}
    \cup {SubSeq(HeaderBytes, 1, n) : n \in 0..(Len(HeaderBytes) - 1)}

\* the standard variable-length encoding of n >= 0: seven bits a byte, most
\* significant first, the high bit set on every byte but the last
RECURSIVE VlqHead(_)
VlqHead(n) ==
    IF n = 0 THEN <<>> ELSE Append(VlqHead(n \div 128), 128 + (n % 128))

EncodeVlq(n) == Append(VlqHead(n \div 128), n % 128)

\* quantities of one to four encoded bytes, up to 2^28 - 1
VlqSamples ==
    {a * 2097152 + b * 16384 + c * 128 + e : a, b, c, e \in {0, 1, 127}}

\* a track whose first event is a note on with the delta-time n
VlqFile(n) == HeaderBytes \o EncodeVlq(n) \o <<144, 60, 100>> \o FEot

VlqFiles == {VlqFile(n) : n \in VlqSamples}

\* a track-name meta event "AB", a note pair on channel 1, a note pair
\* whose data bytes have bit 7 set, and two status bytes that start no
\* event: a data byte and the undefined system status 0xF4
FName == <<0, 255, 3, 2, 65, 66>>
FOn64Ch1 == <<0, 145, 64, 80>>
FOff64Ch1 == <<1, 129, 64, 0>>
FOnHigh == <<0, 144, 200, 240>>
FOffHigh == <<1, 128, 200, 0>>
FDataStatus == <<0, 5>>
FUndefStatus == <<0, 244>>

\* a note on whose ten byte delta-time wraps to -1, and a note on with
\* velocity 0
FOnWrap == <<255, 255, 255, 255, 255, 255, 255, 255, 255, 127, 144, 60, 100>>
FOn60V0 == <<1, 144, 60, 0>>

\* the files with these events
EventFiles ==
    {HeaderBytes \o b \o FEot :
        b \in {FName \o FOn60 \o FOff60,
               FOn60 \o FName \o FOff60,
               FOn64Ch1 \o FOff64Ch1,
               FOn60 \o FOn64Ch1 \o FOff60 \o FOff64Ch1,
               FOnHigh \o FOffHigh,
               FDataStatus \o FOn60 \o FOff60,
               FUndefStatus \o FOn60 \o FOff60,
               FOn60 \o FUndefStatus \o FDataStatus \o FOff60,
               FOn60 \o FOn62 \o FOff62 \o FOffWrap,
               FOn60 \o FOff60 \o FOnWrap \o FOff60Now,
               FOn60 \o FOn60V0,
               FOn60 \o FOn60V0 \o FOff60,
               FOn60V0 \o FOn62 \o FOn60V0 \o FOff62}}

\* a file whose header chunk and track chunk carry the given length fields
MkChunks(headerLength, trackLength, body) ==
    MThd \o headerLength \o <<0, 0, 0, 1, 1, 224>>
        \o MTrk \o trackLength \o body

\* the 32-bit length fields tried: 0, 6, 7, 12, 2^24 and 2^32 - 1
LengthFields ==
    {<<0, 0, 0, 0>>, <<0, 0, 0, 6>>, <<0, 0, 0, 7>>, <<0, 0, 0, 12>>,
     <<1, 0, 0, 0>>, <<255, 255, 255, 255>>}

\* the files that vary the two length fields over a body that decodes
\* (12 bytes long), one that ends at once and one that is cut
LengthFiles ==
    {MkChunks(hl, tl, body) :
        hl \in LengthFields, tl \in LengthFields,
        body \in {FOn60 \o FOff60Now \o FEot, FEot, FOn60 \o FCutOn}}

Files == {HeaderBytes \o b : b \in Bodies(NoteFrags, MaxEvents)}
         \cup {HeaderBytes \o b : b \in Bodies(RawFrags, MaxRaw)}
         \cup {HeaderBytes \o b : b \in Bodies(CutFrags, MaxRaw)}
         \cup HeaderFiles
         \cup VlqFiles
         \cup EventFiles
         \cup LengthFiles

\* the files a directory of several files is made of: a note pair, one that
\* leaves note 62 pending at a non-zero cursor, one that starts with the
\* note off of 62, one with another division and a track name, one without
\* notes, one without end of track, and one with division 0 and two notes
DirFiles ==
    {MkHeader(MThd, <<0, 0>>, <<0, 0>>, MTrk)
         \o FOn60 \o FOn62 \o FOff60 \o FOff62 \o FEot,
     HeaderBytes \o FOn60 \o FOff60 \o FEot,
     HeaderBytes \o FOn60 \o FOn62 \o FOff60 \o FEot,
     HeaderBytes \o FOff62 \o FEot,
     MkHeader(MThd, <<0, 0>>, <<0, 96>>, MTrk)
         \o FName \o FOn62 \o FOff62 \o FEot,
     HeaderBytes \o FEot,
     HeaderBytes \o FOn60}

\* the directories of 1 to n files
RECURSIVE Dirs(_)
Dirs(n) ==
    IF n = 0 THEN {}
    ELSE {<<f>> : f \in DirFiles}
         \cup {Append(fs, f) : fs \in Dirs(n - 1), f \in DirFiles}

----------------------------------------------------------------------------
(* The state machine.                                                       *)

EmptyMap == [k \in {} |-> 0]

\* file.Name() of the i-th .mid entry of the directory: "a.mid", "b.mid",
\* ... as bytes; os.ReadDir returns the entries sorted by name
FileName(i) == <<96 + i, 46, 109, 105, 100>>

\* no conversion made
NoConv == [stage |-> "none"]

NoGame == [noteMin |-> 0, noteMax |-> 127, noteHeight |-> 0, ppqn |-> 0]

\* main has listed the directory as fs and parseMidiFile has opened the
\* first file
InitFiles(fs) ==
    /\ files = fs
    /\ fileNo = 1
    /\ data = fs[1]
    /\ pos = 0
    /\ pc = "header"
    /\ done = FALSE
    /\ midiTrack = NewMidiTrack
    /\ idx = 0
    /\ deltaTotal = I64Zero
    /\ noteOnMap = EmptyMap
    /\ track = NewTrack(<<>>, 0)
    /\ tracks = <<>>
    /\ game = NoGame
    /\ conv = NoConv
    /\ streamTicks = I64Zero
    /\ evTicks = <<>>
    /\ closedBy = <<>>

\* a directory of one file
Init == \E d \in Files : InitFiles(<<d>>)

\* parseMidiFile up to the event loop
ParseHeader ==
    /\ pc = "header"
    /\ LET h == parseHeader(data)
       IN  /\ pos' = h.pos
           /\ pc' = IF h.err THEN "panic" ELSE "events"
           /\ midiTrack' = [midiTrack EXCEPT !.ppqn = h.ppqn]
    /\ UNCHANGED <<conv, files, fileNo, data, done, idx, deltaTotal, noteOnMap,
                   track, tracks, game, streamTicks, evTicks, closedBy>>

\* one pass of the event loop of parseMidiFile; the loop ends, and
\* parseMidiFile returns midiTrack, when the pass sets done
DecodeEvent ==
    /\ pc = "events"
    /\ ~done
    /\ LET r == decodeEvent(data, pos)
           t == I64Add(streamTicks, readVariableLengthValue2(data, pos).val)
       IN  /\ pos' = r.pos
           /\ pc' = IF r.err THEN "panic"
                    ELSE IF r.done THEN "parsed" ELSE "events"
           /\ done' = r.done
           /\ midiTrack' = [midiTrack EXCEPT !.notes = @ \o r.notes]
           /\ streamTicks' = IF r.err THEN streamTicks ELSE t
           /\ evTicks' = IF r.notes = <<>> THEN evTicks ELSE Append(evTicks, t)
    /\ UNCHANGED <<conv, files, fileNo, data, idx, deltaTotal, noteOnMap, track,
                   tracks, game, closedBy>>

\* variant of ToTrackEnter: the pending table and the cursor are kept
\* from the previous call
ToTrackEnter_KeepsPending ==
    /\ pc = "parsed"
    /\ pc' = "totrack"
    /\ track' = NewTrack(FileName(fileNo), midiTrack.ppqn)
    /\ idx' = 0
    /\ closedBy' = <<>>
    /\ UNCHANGED <<conv, files, fileNo, data, pos, done, midiTrack, deltaTotal,
                   noteOnMap, tracks, game, streamTicks, evTicks>>

\* the entry of ToTrack, called by main on the result of parseMidiFile
ToTrackEnter ==
    /\ pc = "parsed"
    /\ pc' = "totrack"
    /\ track' = NewTrack(FileName(fileNo), midiTrack.ppqn)
    /\ deltaTotal' = I64Zero
    /\ noteOnMap' = EmptyMap
    /\ idx' = 0
    /\ closedBy' = <<>>
    /\ UNCHANGED <<conv, files, fileNo, data, pos, done, midiTrack, tracks, game,
                   streamTicks, evTicks>>

\* one pass of the loop of ToTrack over midiTrack.notes
ToTrackStep ==
    /\ pc = "totrack"
    /\ idx < Len(midiTrack.notes)
    /\ LET midiNote == midiTrack.notes[idx + 1]
           cursor == Advance(deltaTotal, midiNote)
           r == toTrackNote(noteOnMap, track.notes, cursor, midiNote)
       IN  /\ deltaTotal' = cursor
           /\ noteOnMap' = r.map
           /\ track' = [track EXCEPT !.notes = r.notes]
           /\ closedBy' = IF Len(r.notes) > Len(track.notes)
                          THEN Append(closedBy, idx + 1) ELSE closedBy
    /\ idx' = idx + 1
    /\ UNCHANGED <<conv, files, fileNo, data, pos, pc, done, midiTrack, tracks,
                   game, streamTicks, evTicks>>

\* ToTrack returns the track and main appends it to its list
ToTrackReturn ==
    /\ pc = "totrack"
    /\ idx = Len(midiTrack.notes)
    /\ pc' = "returned"
    /\ tracks' = Append(tracks, track)
    /\ UNCHANGED <<conv, files, fileNo, data, pos, done, midiTrack, idx, deltaTotal,
                   noteOnMap, track, game, streamTicks, evTicks, closedBy>>

Next ==
    \/ ParseHeader
    \/ DecodeEvent
    \/ ToTrackEnter
    \/ ToTrackStep
    \/ ToTrackReturn

Spec == Init /\ [][Next]_vars

----------------------------------------------------------------------------
(* main over a directory of several files, and the entry of startRender.    *)

InitMain == \E fs \in Dirs(MaxFiles) : InitFiles(fs)

\* variant of OpenNext: main recovers from a failed decode and goes on
\* with the next file
OpenNext_Recovers ==
    /\ pc \in {"returned", "panic"}
    /\ fileNo < Len(files)
    /\ fileNo' = fileNo + 1
    /\ data' = files[fileNo + 1]
    /\ pos' = 0
    /\ pc' = "header"
    /\ done' = FALSE
    /\ midiTrack' = NewMidiTrack
    /\ streamTicks' = I64Zero
    /\ evTicks' = <<>>
    /\ UNCHANGED <<conv, files, idx, deltaTotal, noteOnMap, track, tracks, game,
                   closedBy>>

\* the next pass of main's loop: parseMidiFile opens the next file with a
\* new MidiTrack and done := false; the locals of the finished ToTrack
\* call are left as they were
OpenNext ==
    /\ pc = "returned"
    /\ fileNo < Len(files)
    /\ fileNo' = fileNo + 1
    /\ data' = files[fileNo + 1]
    /\ pos' = 0
    /\ pc' = "header"
    /\ done' = FALSE
    /\ midiTrack' = NewMidiTrack
    /\ streamTicks' = I64Zero
    /\ evTicks' = <<>>
    /\ UNCHANGED <<conv, files, idx, deltaTotal, noteOnMap, track, tracks, game,
                   closedBy>>

\* allNotes of startRender: the notes of all tracks
RECURSIVE AllNotes(_)
AllNotes(ts) ==
    IF ts = <<>> THEN <<>> ELSE Head(ts).notes \o AllNotes(Tail(ts))

\* height - noteTopBottomPaddingPixels*2
DrawHeight == 768 - (50 * 2)

\* startRender up to the construction of the Game, the audio file and the
\* shaders being there: allNotes[0] of an empty list and the division by
\* noteMax - noteMin = 0 are run-time panics
StartRender ==
    /\ pc = "returned"
    /\ fileNo = Len(files)
    /\ LET allNotes == AllNotes(tracks)
           nums == {allNotes[i].num : i \in 1..Len(allNotes)}
       IN  IF allNotes = <<>>
           THEN pc' = "panic" /\ game' = game
           ELSE LET noteMin == CHOOSE n \in nums : \A m \in nums : n <= m
                    noteMax == CHOOSE n \in nums : \A m \in nums : m <= n
                IN  IF noteMax = noteMin
                    THEN pc' = "panic" /\ game' = game
                    ELSE /\ pc' = "render"
                         /\ game' = [noteMin |-> noteMin,
                                     noteMax |-> noteMax,
                                     noteHeight |->
                                         DrawHeight \div (noteMax - noteMin),
                                     ppqn |-> tracks[1].ppqn]
    /\ UNCHANGED <<conv, files, fileNo, data, pos, done, midiTrack, idx, deltaTotal,
                   noteOnMap, track, tracks, streamTicks, evTicks, closedBy>>

NextMain ==
    \/ ParseHeader
    \/ DecodeEvent
    \/ ToTrackEnter
    \/ ToTrackStep
    \/ ToTrackReturn
    \/ OpenNext
    \/ StartRender

SpecMain == InitMain /\ [][NextMain]_vars

----------------------------------------------------------------------------
(* parseMidiFile and ToTrack as functions of one file.                      *)

\* the decode loop of parseMidiFile from offset p, notes being the list
\* built so far
RECURSIVE decodeLoop(_, _, _)
decodeLoop(d, p, notes) ==
    LET r == decodeEvent(d, p)
    IN  IF r.err THEN [err |-> TRUE, notes |-> <<>>]
        ELSE IF r.done THEN [err |-> FALSE, notes |-> notes \o r.notes]
        ELSE decodeLoop(d, r.pos, notes \o r.notes)

\* parseMidiFile on the bytes d: it panics (err), or returns a MidiTrack
parseMidiFile(d) ==
    LET h == parseHeader(d)
    IN  IF h.err THEN [err |-> TRUE, midiTrack |-> NewMidiTrack]
        ELSE LET l == decodeLoop(d, h.pos, <<>>)
             IN  [err |-> l.err,
                  midiTrack |-> [notes |-> l.notes,
                                 ppqn |-> IF l.err THEN 0 ELSE h.ppqn]]

\* the loop of ToTrack from the entry i + 1 of ms
RECURSIVE toTrackLoop(_, _, _, _, _)
toTrackLoop(m, notes, cursor, ms, i) ==
    IF i = Len(ms) THEN notes
    ELSE LET c == Advance(cursor, ms[i + 1])
             r == toTrackNote(m, notes, c, ms[i + 1])
         IN  toTrackLoop(r.map, r.notes, c, ms, i + 1)

\* midiTrack.ToTrack(logger, fileName)
ToTrack(mt, fileName) ==
    [NewTrack(fileName, mt.ppqn) EXCEPT
        !.notes = toTrackLoop(EmptyMap, <<>>, I64Zero, mt.notes, 0)]

----------------------------------------------------------------------------
(* diy of main.go: the earlier variant, which decodes and reconstructs in   *)
(* one function, as a function of one file.                                 *)

\* the header reads of diy: the division is tested and logged, not kept
diyHeader(d) ==
    LET pLength   == ReadEnd(d, 0, 4)
        pFormat   == ReadEnd(d, pLength, 4)
        pNTracks  == ReadEnd(d, pFormat, 2)
        pDivision == ReadEnd(d, pNTracks, 2)
        pTrackHdr == ReadEnd(d, pDivision, 2)
        pTrackLen == ReadEnd(d, pTrackHdr, 4)
        pEvents   == ReadEnd(d, pTrackLen, 4)
    IN  IF ReadErr(d, 0, 4) THEN [err |-> TRUE, pos |-> 0]
        ELSE IF Uint16At(d, pFormat) # 0 THEN [err |-> TRUE, pos |-> pNTracks]
        ELSE IF BufAt(d, pDivision, 1) >= 128
            THEN [err |-> TRUE, pos |-> pTrackHdr]
        ELSE [err |-> FALSE, pos |-> pEvents]

\* the meta event branch of diy; p is the offset after the 0xFF byte
diyMeta(d, p) ==
    IF ReadErr(d, p, 1) THEN Panicked(p)
    ELSE LET metaEventType == d[p + 1]
             l == readVariableLengthValue2(d, p + 1)
             metaEventLength == l.val
         IN  IF l.err THEN Panicked(l.pos)
             ELSE IF metaEventType = 47
                 THEN IF metaEventLength # I64Zero THEN Panicked(l.pos)
                      ELSE Decoded(l.pos, TRUE, <<>>)
             ELSE IF metaEventType = 88
                 THEN IF metaEventLength # I64(4) THEN Panicked(l.pos)
                      ELSE IF l.pos + 4 > Len(d) THEN Panicked(Len(d))
                      ELSE Decoded(l.pos + 4, FALSE, <<>>)
             ELSE IF metaEventType = 81
                 THEN IF metaEventLength # I64(3) THEN Panicked(l.pos)
                      ELSE IF ReadErr(d, l.pos, 3) THEN Panicked(l.pos)
                      ELSE Decoded(ReadEnd(d, l.pos, 3), FALSE, <<>>)
             ELSE readPayload(d, l.pos, metaEventLength)

\* the MIDI event branch of diy; p is the offset after the status byte
diyMidi(d, p, eventFirstByte, deltaTime) ==
    LET midiEventType == eventFirstByte \div 16
    IN  IF midiEventType \notin {NoteOff, NoteOn} THEN Decoded(p, FALSE, <<>>)
        ELSE IF ReadErr(d, p, 1) THEN Panicked(p)
        ELSE IF ReadErr(d, p + 1, 1) THEN Panicked(p + 1)
        ELSE Decoded(p + 2, FALSE,
                     <<[deltaTime |-> deltaTime, eventType |-> midiEventType,
                        channel |-> 0, note |-> d[p + 1],
                        velocity |-> d[p + 2]]>>)

\* one pass of the decode loop of diy from offset p
diyEvent(d, p) ==
    LET v == readVariableLengthValue2(d, p)
    IN  IF v.err THEN Panicked(v.pos)
        ELSE IF ReadErr(d, v.pos, 1) THEN Panicked(v.pos)
        ELSE LET eventFirstByte == d[v.pos + 1]
             IN  IF eventFirstByte = 255 THEN diyMeta(d, v.pos + 1)
                 ELSE IF eventFirstByte \in {240, 247}
                     THEN LET l == readVariableLengthValue2(d, v.pos + 1)
                          IN  IF l.err THEN Panicked(l.pos)
                              ELSE readPayload(d, l.pos, l.val)
                 ELSE diyMidi(d, v.pos + 1, eventFirstByte, v.val)

\* the decode loop of diy from offset p
RECURSIVE diyLoop(_, _, _)
diyLoop(d, p, notes) ==
    LET r == diyEvent(d, p)
    IN  IF r.err THEN [err |-> TRUE, notes |-> <<>>]
        ELSE IF r.done THEN [err |-> FALSE, notes |-> notes \o r.notes]
        ELSE diyLoop(d, r.pos, notes \o r.notes)

\* variant of diyNote: the pending entry stays after its note off
diyNote_KeepsPending(st, midiNote) ==
    LET deltaTotal2 == I64Add(st.deltaTotal, midiNote.deltaTime)
        n == midiNote.note
    IN  IF midiNote.eventType = NoteOn
        THEN [st EXCEPT
                !.deltaTotal = deltaTotal2,
                !.noteOnMap =
                    [k \in DOMAIN st.noteOnMap \cup {n} |->
                        IF k = n
                        THEN [on |-> deltaTotal2, off |-> I64MinusOne,
                              num |-> n, vel |-> midiNote.velocity]
                        ELSE st.noteOnMap[k]]]
        ELSE IF midiNote.eventType = NoteOff /\ n \in DOMAIN st.noteOnMap
        THEN [st EXCEPT
                !.deltaTotal = deltaTotal2,
                !.notes = Append(st.notes, [st.noteOnMap[n] EXCEPT
                                              !.off = deltaTotal2])]
        ELSE [st EXCEPT !.deltaTotal = deltaTotal2]

\* one pass of the reconstruction loop of diy: st is [deltaTotal,
\* noteOnMap, notes]
diyNote(st, midiNote) ==
    LET deltaTotal2 == I64Add(st.deltaTotal, midiNote.deltaTime)
        n == midiNote.note
    IN  IF midiNote.eventType = NoteOn
        THEN [st EXCEPT
                !.deltaTotal = deltaTotal2,
                !.noteOnMap =
                    [k \in DOMAIN st.noteOnMap \cup {n} |->
                        IF k = n
                        THEN [on |-> deltaTotal2, off |-> I64MinusOne,
                              num |-> n, vel |-> midiNote.velocity]
                        ELSE st.noteOnMap[k]]]
        ELSE IF midiNote.eventType = NoteOff /\ n \in DOMAIN st.noteOnMap
        THEN [st EXCEPT
                !.deltaTotal = deltaTotal2,
                !.noteOnMap = [k \in DOMAIN st.noteOnMap \ {n} |->
                                  st.noteOnMap[k]],
                !.notes = Append(st.notes, [st.noteOnMap[n] EXCEPT
                                              !.off = deltaTotal2])]
        ELSE [st EXCEPT !.deltaTotal = deltaTotal2]

\* the reconstruction loop of diy from the entry i + 1 of ms
RECURSIVE diyNotes(_, _, _)
diyNotes(st, ms, i) ==
    IF i = Len(ms) THEN st.notes
    ELSE diyNotes(diyNote(st, ms[i + 1]), ms, i + 1)

\* diy(logger, fileName) on the bytes d: it panics (err), or returns a Track
diy(d, fileName) ==
    LET h == diyHeader(d)
        l == diyLoop(d, h.pos, <<>>)
    IN  IF h.err \/ l.err
        THEN [err |-> TRUE, track |-> [name |-> <<>>, notes |-> <<>>]]
        ELSE [err |-> FALSE,
              track |-> [name |-> Base(fileName),
                         notes |-> diyNotes([deltaTotal |-> I64Zero,
                                             noteOnMap |-> EmptyMap,
                                             notes |-> <<>>],
                                            l.notes, 0)]]

----------------------------------------------------------------------------
(* float64 arithmetic of secondsToDeltaTime and deltaTimeToSeconds.  A      *)
(* natural number is its sequence of bits, most significant first, without  *)
(* leading zeros.  A float64 that is not negative is [m, e]: the 53 bits    *)
(* of its significand taken as a natural number, and the exponent of the    *)
(* last bit, so that its value is m * 2^e; zero is [m |-> <<>>, e |-> 0].   *)
(* The values met here are far from the subnormal and overflow ranges.      *)

Zeros(k) == [i \in 1..k |-> 0]

\* b without its leading zeros
Canon(b) ==
    LET ones == {i \in 1..Len(b) : b[i] = 1}
    IN  IF ones = {} THEN <<>>
        ELSE SubSeq(b, CHOOSE i \in ones : \A j \in ones : i <= j, Len(b))

\* the bits of the natural number n
RECURSIVE NatBits(_)
NatBits(n) == IF n = 0 THEN <<>> ELSE Append(NatBits(n \div 2), n % 2)

\* the natural number of the bits b
RECURSIVE BitsNat(_)
BitsNat(b) ==
    IF b = <<>> THEN 0 ELSE 2 * BitsNat(SubSeq(b, 1, Len(b) - 1)) + b[Len(b)]

\* bit i of b counted from the last one, which is bit 0
BitAt(b, i) == IF i < Len(b) THEN b[Len(b) - i] ELSE 0

\* -1, 0 or 1 as a < b, a = b or a > b
BCmp(a, b) ==
    IF Len(a) # Len(b) THEN (IF Len(a) < Len(b) THEN -1 ELSE 1)
    ELSE LET diff == {i \in 1..Len(a) : a[i] # b[i]}
         IN  IF diff = {} THEN 0
             ELSE LET i == CHOOSE j \in diff : \A k \in diff : j <= k
                  IN  IF a[i] < b[i] THEN -1 ELSE 1

\* The loops over the bits of a number are split in halves, and each half
\* starts by looking at the state it is given, which keeps the nesting of
\* the evaluation logarithmic in the number of bits.

\* bit i of a + b, or of a - b for sign = -1, st being [bits, carry] of
\* the bits below i
AddStep(a, b, sign, st, i) ==
    LET t == BitAt(a, i) + sign * BitAt(b, i) + st.carry
    IN  [bits |-> <<(t + 2) % 2>> \o st.bits,
         carry |-> IF t < 0 THEN -1 ELSE t \div 2]

RECURSIVE AddRange(_, _, _, _, _, _)
AddRange(a, b, sign, st, lo, hi) ==
    IF lo > hi \/ Len(st.bits) > hi THEN st
    ELSE IF lo = hi THEN AddStep(a, b, sign, st, lo)
    ELSE LET mid == (lo + hi) \div 2
         IN  AddRange(a, b, sign, AddRange(a, b, sign, st, lo, mid),
                      mid + 1, hi)

NoBits == [bits |-> <<>>, carry |-> 0]

BAdd(a, b) ==
    LET n == IF Len(a) >= Len(b) THEN Len(a) ELSE Len(b)
    IN  Canon(AddRange(a, b, 1, NoBits, 0, n).bits)

\* a - b for a >= b
BSub(a, b) == Canon(AddRange(a, b, -1, NoBits, 0, Len(a) - 1).bits)

\* |a - b|
BDist(a, b) == IF BCmp(a, b) >= 0 THEN BSub(a, b) ELSE BSub(b, a)

\* a * 2^k
BShl(a, k) == IF a = <<>> THEN <<>> ELSE a \o Zeros(k)

\* acc being a times the bits of b before bit i, a times the bits up to i
MulStep(a, b, acc, i) ==
    IF b[i] = 1 THEN BAdd(BShl(acc, 1), a) ELSE BShl(acc, 1)

RECURSIVE MulRange(_, _, _, _, _)
MulRange(a, b, acc, lo, hi) ==
    IF lo > hi \/ (acc = <<>> /\ a = <<>>) THEN acc
    ELSE IF lo = hi THEN MulStep(a, b, acc, lo)
    ELSE LET mid == (lo + hi) \div 2
         IN  MulRange(a, b, MulRange(a, b, acc, lo, mid), mid + 1, hi)

BMul(a, b) == MulRange(a, b, <<>>, 1, Len(b))

\* one step of the long division of n by b # 0: st is [q, r] for the bits
\* of n before bit i
DivStep(n, b, st, i) ==
    LET r2 == Canon(Append(st.r, n[i]))
    IN  IF BCmp(r2, b) >= 0
        THEN [q |-> Append(st.q, 1), r |-> BSub(r2, b)]
        ELSE [q |-> Append(st.q, 0), r |-> r2]

RECURSIVE DivRange(_, _, _, _, _)
DivRange(n, b, st, lo, hi) ==
    IF lo > hi \/ Len(st.q) >= hi THEN st
    ELSE IF lo = hi THEN DivStep(n, b, st, lo)
    ELSE LET mid == (lo + hi) \div 2
         IN  DivRange(n, b, DivRange(n, b, st, lo, mid), mid + 1, hi)

\* the quotient and the remainder of n by b # 0
BDivMod(n, b) ==
    LET d == DivRange(n, b, [q |-> <<>>, r |-> <<>>], 1, Len(n))
    IN  [q |-> Canon(d.q), r |-> d.r]

\* variant of F64Of: the bits that do not fit are cut off
F64Of_Truncate(n, e) ==
    IF n = <<>> THEN [m |-> <<>>, e |-> 0]
    ELSE IF Len(n) <= 53 THEN [m |-> n \o Zeros(53 - Len(n)),
                              e |-> e - (53 - Len(n))]
    ELSE [m |-> SubSeq(n, 1, 53), e |-> e + (Len(n) - 53)]

\* the float64 nearest to n * 2^e, ties to the even significand
F64Of(n, e) ==
    IF n = <<>> THEN [m |-> <<>>, e |-> 0]
    ELSE IF Len(n) <= 53 THEN [m |-> n \o Zeros(53 - Len(n)),
                              e |-> e - (53 - Len(n))]
    ELSE LET top == SubSeq(n, 1, 53)
             drop == Len(n) - 53
             half == n[54] = 1
             sticky == \E i \in 55..Len(n) : n[i] = 1
             up == half /\ (sticky \/ top[53] = 1)
             m == IF up THEN BAdd(top, <<1>>) ELSE top
         IN  IF Len(m) = 54 THEN [m |-> SubSeq(m, 1, 53), e |-> e + drop + 1]
             ELSE [m |-> m, e |-> e + drop]

\* float64(n) of a natural number n
F64FromNat(n) == F64Of(n, 0)

\* x / y of two float64 with y # 0: the quotient of the significands is
\* taken to 55 or 56 bits and one more bit tells whether a remainder is left
F64Div(x, y) ==
    IF x.m = <<>> THEN x
    ELSE LET d == BDivMod(BShl(x.m, 55), y.m)
         IN  F64Of(Append(d.q, IF d.r = <<>> THEN 0 ELSE 1),
                   x.e - y.e - 56)

\* x * y of two float64
F64Mul(x, y) ==
    IF x.m = <<>> \/ y.m = <<>> THEN [m |-> <<>>, e |-> 0]
    ELSE F64Of(BMul(x.m, y.m), x.e + y.e)

\* int(math.Round(x)) of a float64 below 2^31: halves go away from zero
F64Round(x) ==
    IF x.m = <<>> \/ x.e < -53 THEN 0
    ELSE IF x.e >= 0 THEN BitsNat(BShl(x.m, x.e))
    ELSE BitsNat(SubSeq(x.m, 1, 53 + x.e)) + x.m[53 + x.e + 1]

\* secondsPerTick := float64(microSecondsPerQuarterNote) /
\*                   (1000000.0 * float64(ppqn)), for ppqn >= 1
secondsPerTick(microSecondsPerQuarterNote, ppqn) ==
    F64Div(F64FromNat(NatBits(microSecondsPerQuarterNote)),
           F64Mul(F64FromNat(NatBits(1000000)), F64FromNat(NatBits(ppqn))))

secondsToDeltaTime(elapsedTime, microSecondsPerQuarterNote, ppqn) ==
    F64Round(F64Div(elapsedTime,
                    secondsPerTick(microSecondsPerQuarterNote, ppqn)))

deltaTimeToSeconds(deltaTime, microSecondsPerQuarterNote, ppqn) ==
    F64Mul(F64FromNat(NatBits(deltaTime)),
           secondsPerTick(microSecondsPerQuarterNote, ppqn))

\* the conversions applied to a tick count, a tempo and a division
TickSamples == {0, 1, 2, 3, 7, 49, 96, 196, 479, 480, 481, 960, 1920, 12345}
TempoSamples == {500000, 375000, 465000}
PpqnSamples == {1, 96, 98, 480, 960, 32767}

InitTime ==
    /\ files = <<HeaderBytes \o FEot>>
    /\ fileNo = 1
    /\ data = HeaderBytes \o FEot
    /\ pos = 0
    /\ pc = "convert"
    /\ done = FALSE
    /\ midiTrack = NewMidiTrack
    /\ idx = 0
    /\ deltaTotal = I64Zero
    /\ noteOnMap = EmptyMap
    /\ track = NewTrack(<<>>, 0)
    /\ tracks = <<>>
    /\ game = NoGame
    /\ \E t \in TickSamples, tempo \in TempoSamples, ppqn \in PpqnSamples :
         conv = [stage |-> "args", deltaTime |-> t, tempo |-> tempo,
                 ppqn |-> ppqn, seconds |-> F64FromNat(<<>>), ticks |-> 0]
    /\ streamTicks = I64Zero
    /\ evTicks = <<>>
    /\ closedBy = <<>>

\* seconds := deltaTimeToSeconds(deltaTime, tempo, ppqn)
DeltaTimeToSeconds ==
    /\ conv.stage = "args"
    /\ conv' = [conv EXCEPT
                  !.stage = "seconds",
                  !.seconds = deltaTimeToSeconds(conv.deltaTime, conv.tempo,
                                                 conv.ppqn)]
    /\ UNCHANGED <<files, fileNo, data, pos, pc, done, midiTrack, idx,
                   deltaTotal, noteOnMap, track, tracks, game, streamTicks,
                   evTicks, closedBy>>

\* ticks := secondsToDeltaTime(seconds, tempo, ppqn)
SecondsToDeltaTime ==
    /\ conv.stage = "seconds"
    /\ conv' = [conv EXCEPT
                  !.stage = "ticks",
                  !.ticks = secondsToDeltaTime(conv.seconds, conv.tempo,
                                               conv.ppqn)]
    /\ UNCHANGED <<files, fileNo, data, pos, pc, done, midiTrack, idx,
                   deltaTotal, noteOnMap, track, tracks, game, streamTicks,
                   evTicks, closedBy>>

NextTime ==
    \/ DeltaTimeToSeconds
    \/ SecondsToDeltaTime

SpecTime == InitTime /\ [][NextTime]_vars

----------------------------------------------------------------------------
TypeOK ==
    /\ pos \in 0..Len(data)
    /\ pc \in {"header", "events", "parsed", "totrack", "returned", "render",
              "panic", "convert"}
    /\ fileNo \in 1..Len(files)
    /\ data = files[fileNo]
    /\ pc = "totrack" => idx \in 0..Len(midiTrack.notes)
    /\ Len(evTicks) = Len(midiTrack.notes)
    /\ Len(closedBy) = Len(track.notes)

----------------------------------------------------------------------------
(* Vocabulary of the properties, over the decoded event list.               *)

Notes == midiTrack.notes

IsOn(j, n) == Notes[j].eventType = NoteOn /\ Notes[j].note = n

IsOff(j, n) == Notes[j].eventType = NoteOff /\ Notes[j].note = n

\* the tick cursor at entry j: the 64 bit sum of the first j delta-times
RECURSIVE CursorAt(_)
CursorAt(j) ==
    IF j = 0 THEN I64Zero ELSE I64Add(CursorAt(j - 1), Notes[j].deltaTime)

\* no event for note number n strictly between entries j and k
Quiet(j, k, n) == \A m \in (j + 1)..(k - 1) : Notes[m].note # n

\* entry j is a note on for n that is still unmatched before entry k
PendingAt(j, k, n) ==
    /\ j < k
    /\ IsOn(j, n)
    /\ \A m \in (j + 1)..(k - 1) : ~IsOff(m, n)

\* entry j is the latest note on for n before entry k
LatestOn(j, k, n) ==
    /\ j < k
    /\ IsOn(j, n)
    /\ \A m \in (j + 1)..(k - 1) : ~IsOn(m, n)

\* the number of note on entries among the first k
RECURSIVE CountOn(_)
CountOn(k) ==
    IF k = 0 THEN 0
    ELSE CountOn(k - 1) + (IF Notes[k].eventType = NoteOn THEN 1 ELSE 0)

\* the track entries closed by entry k
ClosedAt(k) == {i \in 1..Len(track.notes) : closedBy[i] = k}

----------------------------------------------------------------------------
(* C1: the onTick of each Note is the sum of the delta-times of all the     *)
(* events of the stream up to and including its note on, its offTick the    *)
(* same sum up to and including its note off, and every decoded event       *)
(* contributes its delta-time to the cursor.                                *)
C1_TicksCountAllEvents ==
    /\ (pc = "totrack" /\ idx > 0) => deltaTotal = evTicks[idx]
    /\ \A i \in 1..Len(track.notes) :
         LET k == closedBy[i]
             n == track.notes[i]
         IN  /\ n.off = evTicks[k]
             /\ \A j \in 1..(k - 1) :
                  LatestOn(j, k, n.num) => n.on = evTicks[j]

----------------------------------------------------------------------------
(* C2: the event loop stops only after decoding an end of track meta event  *)
(* (type 0x2F, length 0); a stream that runs out before one ends in a       *)
(* panic, never in a silent stop or a returned track.                       *)
EndOfTrackDecoded ==
    \E q \in 0..(pos - 3) :
        /\ data[q + 1] = 255
        /\ data[q + 2] = 47
        /\ readVariableLengthValue2(data, q + 2) =
               [err |-> FALSE, val |-> I64Zero, pos |-> pos]

C2_StopsOnlyAtEndOfTrack ==
    /\ [](pc \in {"parsed", "totrack", "returned"} => done)
    /\ [](done => EndOfTrackDecoded)
    /\ [](Len(tracks) > 0 => done)
    /\ [][(pc = "events" /\ pos = Len(data)) => pc' = "panic"]_vars

C2_Witness ==
    /\ pc = "panic"
    /\ pos = Len(data)
    /\ ~done
    /\ Len(midiTrack.notes) >= 2
    /\ tracks = <<>>

----------------------------------------------------------------------------
(* C3: a note on for n with velocity v at cursor a whose next event for n   *)
(* is a note off at cursor b gives exactly one Note (a, b, n, v) and takes  *)
(* n out of the pending table; the minimal track gives Note{0,480,60,100}.  *)
MinimalTrack == HeaderBytes \o FOn60 \o FOff60 \o FEot

C3_OnOffPairGivesOneNote ==
    /\ pc \in {"totrack", "returned"} =>
         \A k \in 1..idx : \A j \in 1..(k - 1) :
           LET n == Notes[k].note
           IN  (IsOn(j, n) /\ IsOff(k, n) /\ Quiet(j, k, n)) =>
                 /\ Cardinality(ClosedAt(k)) = 1
                 /\ \A i \in ClosedAt(k) :
                      track.notes[i] = [on |-> CursorAt(j), off |-> CursorAt(k),
                                        num |-> n, vel |-> Notes[j].velocity]
                 /\ (idx = k => n \notin DOMAIN noteOnMap)
    /\ (data = MinimalTrack /\ pc = "returned") =>
         tracks = <<[name |-> FileName(1), ppqn |-> 480,
                     notes |-> <<[on |-> I64(0), off |-> I64(480),
                                  num |-> 60, vel |-> 100]>>]>>

C3_Witness ==
    /\ data = MinimalTrack
    /\ pc = "returned"
    /\ Len(tracks) = 1

----------------------------------------------------------------------------
(* C4: a channel event whose status high nibble is 0xA..0xE keeps the       *)
(* stream position: the pass consumes its delta-time, its status byte and   *)
(* the data bytes of the MIDI channel event table (1 for 0xC and 0xD, 2     *)
(* for 0xA, 0xB and 0xE), so the next delta-time starts after its data.     *)
ChannelDataLen(nibble) == IF nibble \in {12, 13} THEN 1 ELSE 2

C4_OtherChannelEventsSkipped ==
    [][(pc = "events" /\ pc' = "events") =>
         LET v == readVariableLengthValue2(data, pos)
             status == data[v.pos + 1]
         IN  (status \div 16) \in 10..14 =>
                 pos' = v.pos + 1 + ChannelDataLen(status \div 16)]_vars

----------------------------------------------------------------------------
(* C5: within the note list of every decoded track, onTick is               *)
(* non-decreasing from one entry to the next.                               *)
C5_OnTickNonDecreasing ==
    \A i \in 1..(Len(track.notes) - 1) :
        I64Leq(track.notes[i].on, track.notes[i + 1].on)

(* C5, amended: the note list holds the closed notes in the order in which  *)
(* their note off events are ranged over, each entry carrying the number    *)
(* and the cursor of the note off that closed it; onTick may decrease.      *)
C5_NotesInClosingOrder ==
    /\ \A i \in 1..Len(track.notes) :
         /\ closedBy[i] \in 1..idx
         /\ IsOff(closedBy[i], track.notes[i].num)
         /\ track.notes[i].off = CursorAt(closedBy[i])
    /\ \A i \in 1..(Len(track.notes) - 1) : closedBy[i] < closedBy[i + 1]

C5_Witness ==
    /\ pc = "returned"
    /\ \E i \in 1..(Len(track.notes) - 1) :
         /\ I64Less(track.notes[i + 1].on, track.notes[i].on)
         /\ track.notes[i].num # track.notes[i + 1].num

----------------------------------------------------------------------------
(* C6: a note off for a number with no pending note on adds no Note,        *)
(* leaves the note list and the pending table unchanged, raises no error,   *)
(* and the reconstruction goes on with the next event.                      *)
Orphan(k) ==
    /\ Notes[k].eventType = NoteOff
    /\ ~\E j \in 1..(k - 1) : PendingAt(j, k, Notes[k].note)

C6_OrphanNoteOffIgnored ==
    [][(pc = "totrack" /\ idx < Len(Notes) /\ Orphan(idx + 1)) =>
         /\ track' = track
         /\ noteOnMap' = noteOnMap
         /\ pc' = "totrack"
         /\ idx' = idx + 1]_vars

C6_Witness ==
    /\ pc = "returned"
    /\ \E k \in 1..Len(Notes) : Orphan(k) /\ k < Len(Notes)
    /\ Len(track.notes) > 0

----------------------------------------------------------------------------
(* C7: a second note on for n while one is pending replaces it: the Note    *)
(* closed by the next note off for n carries the onTick and the velocity    *)
(* of the latest note on, and no Note is emitted for the replaced one.      *)
Replaced(j, k, n) ==
    /\ PendingAt(j, k, n)
    /\ \E m \in (j + 1)..(k - 1) : IsOn(m, n)

C7_LatestNoteOnWins ==
    \A i \in 1..Len(track.notes) :
        LET k == closedBy[i]
            n == track.notes[i].num
        IN  \A j \in 1..(k - 1) :
              /\ LatestOn(j, k, n) =>
                   /\ track.notes[i].on = CursorAt(j)
                   /\ track.notes[i].vel = Notes[j].velocity
              /\ Replaced(j, k, n) => Cardinality(ClosedAt(k)) = 1

C7_Witness ==
    /\ pc = "returned"
    /\ \E i \in 1..Len(track.notes) :
         \E j \in 1..(closedBy[i] - 1) :
           /\ Replaced(j, closedBy[i], track.notes[i].num)
           /\ Notes[j].velocity # track.notes[i].vel
           /\ CursorAt(j) # track.notes[i].on

----------------------------------------------------------------------------
(* C8: notes still pending at the end of track never appear in the Track:   *)
(* every Note of the track has a closed offTick, never the sentinel -1.     *)
C8_NoOpenNoteInTrack ==
    /\ \A i \in 1..Len(track.notes) : track.notes[i].off # I64MinusOne
    /\ \A t \in 1..Len(tracks) : \A i \in 1..Len(tracks[t].notes) :
         tracks[t].notes[i].off # I64MinusOne

----------------------------------------------------------------------------
(* C9: the number of Notes of the track is at most the number of note on    *)
(* events ranged over so far, and equals the number of note on events at    *)
(* the end when every note on has a later note off for its number with no   *)
(* note on for that number in between.                                      *)
WellPaired ==
    \A j \in 1..Len(Notes) :
        Notes[j].eventType = NoteOn =>
            \E k \in (j + 1)..Len(Notes) :
                /\ IsOff(k, Notes[j].note)
                /\ \A m \in (j + 1)..(k - 1) : ~IsOn(m, Notes[j].note)

C9_NoteCountAtMostNoteOns ==
    /\ Len(track.notes) <= CountOn(idx)
    /\ (pc = "returned" /\ WellPaired) => Len(track.notes) = CountOn(Len(Notes))
    /\ \A t \in 1..Len(tracks) : Len(tracks[t].notes) <= CountOn(Len(Notes))

C9_Witness ==
    /\ pc = "returned"
    /\ WellPaired
    /\ CountOn(Len(Notes)) >= 2
    /\ Len(tracks[1].notes) = CountOn(Len(Notes))

----------------------------------------------------------------------------
(* C10: the cursor is non-decreasing over the event sequence, and every     *)
(* Note of the track has onTick <= offTick.                                 *)
C10_TickMonotonicity ==
    /\ [][pc = "totrack" => I64Leq(deltaTotal, deltaTotal')]_vars
    /\ [](\A i \in 1..Len(track.notes) :
             I64Leq(track.notes[i].on, track.notes[i].off))

----------------------------------------------------------------------------
(* C11: every closed Note of a track has offTick > onTick, strictly, also   *)
(* when its note off has delta-time 0 after its note on.                    *)
C11_OffStrictlyAfterOn ==
    \A i \in 1..Len(track.notes) :
        I64Less(track.notes[i].on, track.notes[i].off)

\* the 64 bit sum of the delta-times of the entries after j up to k
RECURSIVE DeltaBetween(_, _)
DeltaBetween(j, k) ==
    IF k <= j THEN I64Zero
    ELSE I64Add(DeltaBetween(j, k - 1), Notes[k].deltaTime)

(* C11, amended: the offTick of every closed Note is its onTick plus the    *)
(* 64 bit sum of the delta-times of the note events after its note on up    *)
(* to and including its note off; when these are 0, offTick = onTick.       *)
C11_OffIsOnPlusDeltas ==
    \A i \in 1..Len(track.notes) :
        LET k == closedBy[i]
            n == track.notes[i]
        IN  \A j \in 1..(k - 1) :
              LatestOn(j, k, n.num) =>
                  n.off = I64Add(n.on, DeltaBetween(j, k))

C11_Witness ==
    /\ pc = "returned"
    /\ \E i \in 1..Len(track.notes) :
         /\ track.notes[i].off = track.notes[i].on
         /\ closedBy[i] > 1
         /\ IsOn(closedBy[i] - 1, track.notes[i].num)
         /\ Notes[closedBy[i]].deltaTime = I64Zero

----------------------------------------------------------------------------
(* C12: if the first four bytes of the file are not "MThd", the decode      *)
(* fails and no track is produced.                                          *)
HeaderTag == SubSeq(data, 1, Min(4, Len(data)))

C12_HeaderTagChecked ==
    HeaderTag # MThd =>
        /\ pc \notin {"parsed", "totrack", "returned"}
        /\ midiTrack.notes = <<>>
        /\ ~done
        /\ tracks = <<>>

----------------------------------------------------------------------------
(* C13: if the four byte tag read after the header data is not "MTrk",      *)
(* the decode fails and no events are decoded from that chunk.              *)
TrackTag == SubSeq(data, Min(15, Len(data) + 1), Min(18, Len(data)))

C13_TrackTagChecked ==
    TrackTag # MTrk =>
        /\ pc \notin {"parsed", "totrack", "returned"}
        /\ midiTrack.notes = <<>>
        /\ ~done
        /\ tracks = <<>>

----------------------------------------------------------------------------
(* C14: a header whose big-endian 16 bit format field (bytes 8-9) is not 0  *)
(* makes the decode fail before any track event is read.                    *)
FormatField == data[9] * 256 + data[10]

C14_OnlyFormatZeroProceeds ==
    (Len(data) >= 10 /\ FormatField # 0) =>
        /\ pc \in {"header", "panic"}
        /\ pos <= 10
        /\ midiTrack.notes = <<>>
        /\ ~done
        /\ tracks = <<>>

C14_Witness ==
    /\ Len(data) > Len(HeaderBytes)
    /\ FormatField = 1
    /\ data[13] < 128
    /\ pc = "panic"

----------------------------------------------------------------------------
(* C15: a header whose division field has bit 15 set (the high bit of byte  *)
(* 12) makes the decode fail before any track event is read; no track with  *)
(* a frame-based division is produced.                                      *)
C15_FrameDivisionRejected ==
    /\ (Len(data) >= 13 /\ data[13] >= 128) =>
         /\ pc \in {"header", "panic"}
         /\ pos <= 14
         /\ midiTrack.notes = <<>>
         /\ ~done
         /\ tracks = <<>>
    /\ midiTrack.ppqn < 32768
    /\ \A t \in 1..Len(tracks) : tracks[t].ppqn < 32768

C15_Witness ==
    /\ Len(data) > Len(HeaderBytes)
    /\ FormatField = 0
    /\ data[13] >= 128
    /\ data[14] < 128
    /\ pc = "panic"

----------------------------------------------------------------------------
(* C16: with bit 15 of the division clear, the ppqn of the resulting Track  *)
(* is the big-endian 16 bit value of header bytes 12-13, and neither the    *)
(* event decode nor the note reconstruction changes it.                     *)
DivisionField == data[13] * 256 + data[14]

C16_PpqnIsDivision ==
    (Len(data) >= 14 /\ data[13] < 128 /\ FormatField = 0) =>
        /\ pc # "header" => midiTrack.ppqn = DivisionField
        /\ pc \in {"totrack", "returned"} => track.ppqn = DivisionField
        /\ \A t \in 1..Len(tracks) : tracks[t].ppqn = DivisionField

C16_Witness ==
    /\ pc = "returned"
    /\ data[13] = 127
    /\ data[14] = 255
    /\ tracks[1].ppqn = 32767
    /\ Len(tracks[1].notes) = 1

----------------------------------------------------------------------------
(* C17: a recognized meta event whose length differs from its fixed         *)
(* expectation (end of track # 0, set tempo # 3, time signature # 4) makes  *)
(* the decode fail; an end of track with a non-zero length does not set     *)
(* the termination flag.                                                    *)
BadMetaLengthAt(p) ==
    LET v == readVariableLengthValue2(data, p)
    IN  /\ ~v.err
        /\ v.pos + 2 <= Len(data)
        /\ data[v.pos + 1] = 255
        /\ LET type == data[v.pos + 2]
               l == readVariableLengthValue2(data, v.pos + 2)
           IN  /\ ~l.err
               /\ \/ type = 47 /\ l.val # I64(0)
                  \/ type = 81 /\ l.val # I64(3)
                  \/ type = 88 /\ l.val # I64(4)

C17_BadMetaLengthFails ==
    [][(pc = "events" /\ BadMetaLengthAt(pos)) =>
         /\ pc' = "panic"
         /\ ~done'
         /\ midiTrack' = midiTrack
         /\ tracks' = <<>>]_vars

C17_Witness ==
    /\ pc = "panic"
    /\ ~done
    /\ pos >= Len(HeaderBytes) + 4
    /\ pos < Len(data)
    /\ SubSeq(data, pos - 2, pos) = <<255, 47, 1>>

----------------------------------------------------------------------------
(* C18: a stream that ends while more data is expected inside an event      *)
(* (after a note on status byte, inside a variable-length quantity, inside  *)
(* the payload of a meta or sysex event) makes the decode fail; no track    *)
(* is built from the events decoded so far.                                 *)

\* the payload of declared length l.val starts at l.pos and the file ends
\* before its end: "now" when no byte of it is left or it is read byte by
\* byte, "later" when some of it is left
PayloadCut(bytewise, l) ==
    LET left == Len(data) - l.pos
    IN  IF IsNeg(l.val) \/ I64Leq(l.val, I64(left)) THEN "no"
        ELSE IF left = 0 \/ bytewise THEN "now" ELSE "later"

\* whether the file ends inside the event that starts at offset p
CutAt(p) ==
    LET v == readVariableLengthValue2(data, p)
    IN  IF p >= Len(data) THEN "no"
        ELSE IF v.err \/ v.pos >= Len(data) THEN "now"
        ELSE LET status == data[v.pos + 1]
             IN  IF status = 255
                     THEN IF v.pos + 1 >= Len(data) THEN "now"
                          ELSE LET l == readVariableLengthValue2(data, v.pos + 2)
                               IN  IF l.err THEN "now"
                                   ELSE PayloadCut(data[v.pos + 2] = 88, l)
                 ELSE IF status \in {240, 247}
                     THEN LET l == readVariableLengthValue2(data, v.pos + 1)
                          IN  IF l.err THEN "now" ELSE PayloadCut(FALSE, l)
                 ELSE IF (status \div 16) \in {NoteOff, NoteOn}
                     THEN IF v.pos + 3 > Len(data) THEN "now" ELSE "no"
                 ELSE "no"

C18_CutInsideEventFails ==
    /\ [][(pc = "events" /\ CutAt(pos) = "now") =>
            (pc' = "panic" /\ midiTrack' = midiTrack /\ tracks' = <<>>)]_vars
    /\ [][(pc = "events" /\ CutAt(pos) = "later") =>
            \/ pc' = "panic"
            \/ /\ pc' = "events"
               /\ pos' = Len(data)
               /\ ~done'
               /\ midiTrack' = midiTrack]_vars
    /\ [][(pc = "events" /\ pos = Len(data)) =>
            (pc' = "panic" /\ tracks' = <<>>)]_vars

C18_Witness ==
    /\ pc = "panic"
    /\ pos = Len(data)
    /\ Len(data) >= Len(HeaderBytes) + 6
    /\ SubSeq(data, Len(data) - 1, Len(data)) = FCutOn
    /\ Len(midiTrack.notes) >= 1
    /\ tracks = <<>>

----------------------------------------------------------------------------
(* C19: readVariableLengthValue2 terminates on every finite stream: it      *)
(* reads at most the bytes that are left, and a quantity whose bytes all    *)
(* have the continuation bit set up to the end of the stream ends in the    *)
(* end-of-file panic.                                                       *)
Unterminated(p) == \A q \in (p + 1)..Len(data) : data[q] >= 128

C19_VlqEndsAtEndOfStream ==
    /\ [](pc = "header" => \A p \in 0..Len(data) :
            LET r == readVariableLengthValue2(data, p)
            IN  /\ r.pos \in p..Len(data)
                /\ r.err <=> Unterminated(p)
                /\ r.err => r.pos = Len(data)
                /\ ~r.err => (r.pos > p /\ data[r.pos] < 128))
    /\ [][(pc = "events" /\ Unterminated(pos)) =>
            (pc' = "panic" /\ pos' = Len(data))]_vars

C19_Witness ==
    /\ pc = "panic"
    /\ pos = Len(data)
    /\ Len(midiTrack.notes) >= 1
    /\ data[Len(data)] >= 128
    /\ data[Len(data) - 1] < 128

----------------------------------------------------------------------------
(* C20: for every N with 0 <= N < 2^28, readVariableLengthValue2 applied    *)
(* to the standard encoding of N returns N and consumes exactly the         *)
(* encoded bytes.                                                           *)
C20_VlqRoundTrip ==
    data \in VlqFiles =>
        LET n == CHOOSE v \in VlqSamples : data = VlqFile(v)
            e == Len(HeaderBytes) + Len(EncodeVlq(n))
        IN  /\ readVariableLengthValue2(data, Len(HeaderBytes)) =
                   [err |-> FALSE, val |-> I64(n), pos |-> e]
            /\ pc # "panic"
            /\ midiTrack.notes # <<>> =>
                   midiTrack.notes[1].deltaTime = I64(n)
            /\ (pc = "events" /\ midiTrack.notes # <<>>) => pos = e + 3

C20_Witness ==
    /\ data = VlqFile(268435455)
    /\ pc = "events"
    /\ pos = Len(HeaderBytes) + 7
    /\ midiTrack.notes[1].deltaTime = <<0, 127, 2097151>>

----------------------------------------------------------------------------
(* C21: readVariableLengthValue2 stops after the first byte whose high bit  *)
(* is 0, consumes no byte beyond it, and returns the low 7 bits of the      *)
(* bytes read, concatenated most significant first in a Go int.             *)

\* the 7 bit group i places before the last byte of the quantity read from
\* offset p up to the byte q; 0 where the quantity has no such byte
Group(p, q, i) == IF q - i > p THEN data[q - i] % 128 ELSE 0

\* the groups of the quantity laid out in the 64 bits of an int
Concat7(p, q) ==
    <<(Group(p, q, 9) % 2) * Limb + Group(p, q, 8) * Keep14
          + Group(p, q, 7) * 128 + Group(p, q, 6),
      Group(p, q, 5) * Keep14 + Group(p, q, 4) * 128 + Group(p, q, 3),
      Group(p, q, 2) * Keep14 + Group(p, q, 1) * 128 + Group(p, q, 0)>>

----------------------------------------------------------------------------
(* C22: a failed decode pass ends the program at once: the pass adds        *)
(* nothing to the MidiTrack, the Track or main's list, no step follows      *)
(* the panic, and a directory holding a file that cannot decode never       *)
(* gets a track for that file nor reaches the render stage.                 *)

\* what every file that decodes must hold: format 0, a division with bit
\* 15 clear and the three bytes FF 2F 00 of an end of track
CanDecode(d) ==
    /\ Len(d) >= 25
    /\ d[9] = 0 /\ d[10] = 0
    /\ d[13] < 128
    /\ \E q \in 23..(Len(d) - 2) :
         d[q] = 255 /\ d[q + 1] = 47 /\ d[q + 2] = 0

C22_FailedDecodeReturnsNothing ==
    /\ [][pc # "panic"]_vars
    /\ [][(pc' = "panic" /\ pc # "returned") =>
            (tracks' = tracks /\ midiTrack' = midiTrack /\ track' = track)]_vars
    /\ [](/\ Len(tracks) <= fileNo
          /\ \A t \in 1..Len(tracks) : CanDecode(files[t])
          /\ pc = "render" => Len(tracks) = Len(files))

C22_Witness ==
    /\ pc = "panic"
    /\ fileNo = 2
    /\ Len(tracks) = 1
    /\ midiTrack.notes # <<>>
    /\ ~CanDecode(data)

----------------------------------------------------------------------------
(* C23: a status byte below 0x80, or one of 0xF1-0xF6 and 0xF8-0xFE, makes  *)
(* the pass that reads it fail.                                             *)
UndeterminedStatus == (0..127) \cup (241..246) \cup (248..254)

C23_UndeterminedStatusFails ==
    [][(/\ pc = "events"
        /\ LET v == readVariableLengthValue2(data, pos)
           IN  /\ ~v.err
               /\ v.pos < Len(data)
               /\ data[v.pos + 1] \in UndeterminedStatus)
         => pc' = "panic"]_vars

----------------------------------------------------------------------------
(* C24: the name of a Track.  As claimed: the payload of the track-name     *)
(* meta event (0x03) of the stream is the name of the Track.  As the code   *)
(* has it: the name of a Track is the base name of its file, whatever       *)
(* track-name event the stream holds.                                       *)

\* the payload of the first track-name meta event decoded from offset p on,
\* <<>> when the decode ends without one
RECURSIVE TrackNameFrom(_, _)
TrackNameFrom(d, p) ==
    LET r == decodeEvent(d, p)
        v == readVariableLengthValue2(d, p)
    IN  IF r.err \/ r.done THEN <<>>
        ELSE IF d[v.pos + 1] = 255 /\ d[v.pos + 2] = 3
            THEN SubSeq(d, readVariableLengthValue2(d, v.pos + 2).pos + 1,
                        r.pos)
        ELSE TrackNameFrom(d, r.pos)

TrackName == TrackNameFrom(data, Len(HeaderBytes))

C24_NameIsTrackNamePayload ==
    (pc = "returned" /\ TrackName # <<>>) => track.name = TrackName

C24_NameIsFileName ==
    /\ pc \in {"totrack", "returned"} => track.name = FileName(fileNo)
    /\ \A t \in 1..Len(tracks) : tracks[t].name = FileName(t)

C24_Witness ==
    /\ pc = "returned"
    /\ TrackName = <<65, 66>>
    /\ tracks[1].name = <<97, 46, 109, 105, 100>>

----------------------------------------------------------------------------
(* C25: a meta event of a type other than 0x03, 0x2F, 0x51 and 0x58, and a  *)
(* system-exclusive event, whose declared payload is in the stream: the     *)
(* pass ends without error just after the payload, with the note-event      *)
(* list as it was and the loop not done.                                    *)

\* the offset after the type byte of an unrecognized meta event, or after
\* the status byte of a system-exclusive event, that starts at offset p;
\* 0 when no such event starts there
SkippedEventAt(p) ==
    LET v == readVariableLengthValue2(data, p)
    IN  IF v.err \/ v.pos >= Len(data) THEN 0
        ELSE IF data[v.pos + 1] \in {240, 247} THEN v.pos + 1
        ELSE IF /\ data[v.pos + 1] = 255
                /\ v.pos + 1 < Len(data)
                /\ data[v.pos + 2] \notin {3, 47, 81, 88}
            THEN v.pos + 2
        ELSE 0

C25_SkippedEventsConsumePayload ==
    [][(pc = "events" /\ SkippedEventAt(pos) # 0) =>
         LET l == readVariableLengthValue2(data, SkippedEventAt(pos))
         IN  (/\ ~l.err
              /\ ~IsNeg(l.val)
              /\ I64Leq(l.val, I64(Len(data) - l.pos)))
             => /\ pc' = "events"
                /\ pos' = l.pos + l.val[3]
                /\ midiTrack' = midiTrack
                /\ done' = FALSE]_vars

C25_Witness ==
    /\ data = HeaderBytes \o FSysex \o FText \o FEot
    /\ pc = "returned"
    /\ pos = Len(data)
    /\ midiTrack.notes = <<>>

----------------------------------------------------------------------------
(* C26: every Note of a produced Track has its note number and its          *)
(* velocity in 0..127.                                                      *)
C26_NoteFieldsInSevenBits ==
    \A t \in 1..Len(tracks) : \A i \in 1..Len(tracks[t].notes) :
        /\ tracks[t].notes[i].num \in 0..127
        /\ tracks[t].notes[i].vel \in 0..127

----------------------------------------------------------------------------
(* C27: the channel recorded for a decoded note on or note off is the low   *)
(* nibble of its status byte.                                               *)
C27_ChannelIsLowNibble ==
    [][(pc = "events" /\ Len(midiTrack'.notes) = Len(midiTrack.notes) + 1) =>
         midiTrack'.notes[Len(midiTrack'.notes)].channel =
             data[readVariableLengthValue2(data, pos).pos + 1] % 16]_vars

----------------------------------------------------------------------------
(* C28: the delta-time that readVariableLengthValue2 returns for a          *)
(* terminated quantity is never negative, however many bytes it has.        *)
C28_DeltaTicksNonNegative ==
    /\ \A j \in 1..Len(midiTrack.notes) : ~IsNeg(midiTrack.notes[j].deltaTime)
    /\ pc = "events" =>
         LET v == readVariableLengthValue2(data, pos)
         IN  ~v.err => ~IsNeg(v.val)

----------------------------------------------------------------------------
(* C29: in a directory of several files every file gets the Track it gets   *)
(* alone, in every order: parseMidiFile starts each file with an empty      *)
(* MidiTrack at offset 0, and ToTrack starts each call with an empty        *)
(* pending table, a zero cursor and an empty note list.                     *)
C29_FilesDecodeIndependently ==
    /\ [](\A t \in 1..Len(tracks) :
            LET alone == parseMidiFile(files[t])
            IN  /\ ~alone.err
                /\ tracks[t] = ToTrack(alone.midiTrack, FileName(t)))
    /\ [][(pc = "returned" /\ pc' = "header") =>
            (midiTrack' = NewMidiTrack /\ pos' = 0 /\ done' = FALSE)]_vars
    /\ [][(pc = "parsed" /\ pc' = "totrack") =>
            (/\ noteOnMap' = EmptyMap
             /\ deltaTotal' = I64Zero
             /\ track'.notes = <<>>)]_vars

C29_Witness ==
    /\ files = <<HeaderBytes \o FOn60 \o FOn62 \o FOff60 \o FEot,
                 HeaderBytes \o FOff62 \o FEot>>
    /\ Len(tracks) = 2
    /\ Len(tracks[1].notes) = 1
    /\ tracks[2].notes = <<>>
    /\ deltaTotal = I64(1)

----------------------------------------------------------------------------
(* C30: the two chunk length fields play no part: a file and the file that  *)
(* differs from it in these fields only fail together or give the same      *)
(* MidiTrack and Track, whether or not the fields match the bytes there.    *)

\* the file d with its header chunk length and track chunk length replaced
WithLengths(d, headerLength, trackLength) ==
    SubSeq(d, 1, 4) \o headerLength \o SubSeq(d, 9, 18) \o trackLength
        \o SubSeq(d, 23, Len(d))

\* the length fields compared for one file
LengthPairs ==
    IF data \in LengthFiles THEN LengthFields \X LengthFields
    ELSE {<<<<255, 255, 255, 255>>, <<0, 0, 0, 7>>>>}

C30_LengthFieldsIgnored ==
    (pc \in {"panic", "returned"} /\ Len(data) >= 22) =>
        \A ls \in LengthPairs :
            LET other == parseMidiFile(WithLengths(data, ls[1], ls[2]))
            IN  /\ other.err <=> pc = "panic"
                /\ pc = "returned" =>
                     /\ other.midiTrack = midiTrack
                     /\ ToTrack(other.midiTrack, FileName(fileNo)) = track

C30_Witness ==
    /\ data = MkChunks(<<255, 255, 255, 255>>, <<0, 0, 0, 7>>,
                       FOn60 \o FOff60Now \o FEot)
    /\ pc = "returned"
    /\ Len(track.notes) = 1

----------------------------------------------------------------------------
(* C31: the tick/second conversions.  As claimed: deltaTimeToSeconds gives  *)
(* t * tempo / (1000000 * division), that is the float64 nearest to this    *)
(* ratio.  As the code has it: the float64 product of t and the float64     *)
(* quotient tempo / (1000000 * division), which is within 2^-51 of the      *)
(* ratio, relatively; 480 ticks at tempo 500000 and division 480 give       *)
(* exactly 0.5, and secondsToDeltaTime gives the tick count back.           *)

\* t * tempo and 1000000 * division as natural numbers
RatioNum == BMul(NatBits(conv.deltaTime), NatBits(conv.tempo))
RatioDen == BMul(NatBits(1000000), NatBits(conv.ppqn))

\* the float64 nearest to RatioNum / RatioDen
NearestRatio ==
    LET d == BDivMod(BShl(RatioNum, 100), RatioDen)
    IN  IF RatioNum = <<>> THEN F64FromNat(<<>>)
        ELSE F64Of(Append(d.q, IF d.r = <<>> THEN 0 ELSE 1), -101)

\* 0.5 as a float64
Half == [m |-> <<1>> \o Zeros(52), e |-> -53]

C31_SecondsAreNearestRatio ==
    conv.stage \in {"seconds", "ticks"} => conv.seconds = NearestRatio

C31_ConversionsWithinRounding ==
    /\ conv.stage \in {"seconds", "ticks"} =>
         /\ conv.seconds.e <= 0
         /\ BCmp(BShl(BDist(BMul(conv.seconds.m, RatioDen),
                            BShl(RatioNum, 0 - conv.seconds.e)), 51),
                 BShl(RatioNum, 0 - conv.seconds.e)) <= 0
         /\ (conv.deltaTime = 480 /\ conv.tempo = 500000 /\ conv.ppqn = 480)
              => conv.seconds = Half
    /\ conv.stage = "ticks" => conv.ticks = conv.deltaTime

C31_Witness ==
    /\ conv.stage = "ticks"
    /\ conv.deltaTime = 480
    /\ conv.tempo = 500000
    /\ conv.ppqn = 480
    /\ conv.seconds = Half
    /\ conv.ticks = 480

----------------------------------------------------------------------------
(* C32: within the note list of every track, offTick is non-decreasing      *)
(* from one entry to the next.                                              *)
C32_OffTickNonDecreasing ==
    \A t \in 1..Len(tracks) : \A i \in 1..(Len(tracks[t].notes) - 1) :
        I64Leq(tracks[t].notes[i].off, tracks[t].notes[i + 1].off)

----------------------------------------------------------------------------
(* C33: two Notes of a track with the same note number do not overlap: the  *)
(* later one in the list has onTick >= the offTick of the earlier one.      *)
C33_SameNumberNotesDisjoint ==
    \A t \in 1..Len(tracks) : \A j \in 1..Len(tracks[t].notes) :
        \A i \in 1..(j - 1) :
            tracks[t].notes[i].num = tracks[t].notes[j].num =>
                I64Leq(tracks[t].notes[i].off, tracks[t].notes[j].on)

----------------------------------------------------------------------------
(* C34: a status byte of high nibble 0x9 with velocity 0 is decoded as a    *)
(* note on, and ToTrack takes it as one: it closes no Note and becomes the  *)
(* pending entry of its note number; a stream without note off events       *)
(* gives a track without Notes.                                             *)
C34_VelocityZeroIsNoteOn ==
    /\ [][(/\ pc = "events"
           /\ LET v == readVariableLengthValue2(data, pos)
              IN  /\ ~v.err
                  /\ v.pos + 3 <= Len(data)
                  /\ data[v.pos + 1] \div 16 = 9
                  /\ data[v.pos + 3] = 0)
            => /\ Len(midiTrack'.notes) = Len(midiTrack.notes) + 1
               /\ LET e == midiTrack'.notes[Len(midiTrack'.notes)]
                  IN  /\ e.eventType = NoteOn
                      /\ e.velocity = 0
                      /\ e.note = data[readVariableLengthValue2(data, pos).pos
                                       + 2]]_vars
    /\ [](pc \in {"totrack", "returned"} =>
            /\ \A k \in 1..idx :
                 (Notes[k].eventType = NoteOn /\ Notes[k].velocity = 0) =>
                   /\ ClosedAt(k) = {}
                   /\ idx = k =>
                        /\ Notes[k].note \in DOMAIN noteOnMap
                        /\ noteOnMap[Notes[k].note] =
                             [on |-> CursorAt(k), off |-> I64MinusOne,
                              num |-> Notes[k].note, vel |-> 0]
            /\ (pc = "returned" /\
                \A j \in 1..Len(Notes) : Notes[j].eventType = NoteOn)
                 => track.notes = <<>>)

C34_Witness ==
    /\ data = HeaderBytes \o FOn60 \o FOn60V0 \o FEot
    /\ pc = "returned"
    /\ tracks[1].notes = <<>>
    /\ noteOnMap[60].vel = 0
    /\ noteOnMap[60].on = I64(1)

----------------------------------------------------------------------------
(* C35: every Track that reaches the render loop has ppqn >= 1, and so has  *)
(* the Game, whose Update divides by g.ppqn * 4.                            *)
C35_RenderedPpqnAtLeastOne ==
    pc = "render" =>
        /\ game.ppqn >= 1
        /\ \A t \in 1..Len(tracks) : tracks[t].ppqn >= 1

----------------------------------------------------------------------------
(* C36: the decode ends at the first end of track event and reads no byte   *)
(* after it: whatever follows that event in the file, the MidiTrack and     *)
(* the Track are the same.                                                  *)

\* an end of track event with delta-time starts at offset p
EotAt(p) ==
    LET v == readVariableLengthValue2(data, p)
    IN  /\ ~v.err
        /\ v.pos + 3 <= Len(data)
        /\ data[v.pos + 1] = 255
        /\ data[v.pos + 2] = 47
        /\ data[v.pos + 3] = 0

\* what is put after the end of track event in place of what the file has
Tails == {<<>>, <<0>>, <<255>>, FOn62 \o FOff62 \o FEot, FOffWrap, FEotLen1}

C36_NothingReadAfterEndOfTrack ==
    /\ [][(pc = "events" /\ EotAt(pos)) =>
            /\ pc' = "parsed"
            /\ done'
            /\ pos' = readVariableLengthValue2(data, pos).pos + 3]_vars
    /\ [][(pc = "parsed" \/ pc = "totrack") =>
            (pos' = pos /\ midiTrack' = midiTrack)]_vars
    /\ [](pc = "returned" => \A tail \in Tails :
            LET other == parseMidiFile(SubSeq(data, 1, pos) \o tail)
            IN  /\ ~other.err
                /\ other.midiTrack = midiTrack
                /\ ToTrack(other.midiTrack, FileName(fileNo)) = track)

C36_Witness ==
    /\ data = HeaderBytes \o FOn60 \o FOff60 \o FEot \o FOn62 \o FOff62
    /\ pc = "returned"
    /\ pos = Len(data) - Len(FOn62) - Len(FOff62)
    /\ Len(track.notes) = 1

----------------------------------------------------------------------------
(* C37: diy of main.go and parseMidiFile followed by ToTrack fail on the    *)
(* same files and give the same list of Notes on the others.                *)
C37_DiyGivesSameNotes ==
    /\ pc = "panic" => diy(data, FileName(fileNo)).err
    /\ pc = "returned" =>
         /\ ~diy(data, FileName(fileNo)).err
         /\ diy(data, FileName(fileNo)).track.notes = track.notes
         /\ diy(data, FileName(fileNo)).track.name = track.name

C37_Witness ==
    /\ pc = "returned"
    /\ Len(track.notes) = 1
    /\ DOMAIN noteOnMap = {62}
    /\ diy(data, FileName(fileNo)).track.notes = track.notes

----------------------------------------------------------------------------
(* C38: once every file of the directory is decoded, startRender gets to    *)
(* the render stage: it never fails on the note range.                      *)
C38_StartRenderNeverFails ==
    [][(pc = "returned" /\ fileNo = Len(files)) => pc' = "render"]_vars

====
